---------------------------- MODULE Spec2Model ----------------------------
(***************************************************************************)
(* A model of the CodeRefactor backend: the Groq refactor service          *)
(* (server/services/groqService.js) and the refactor router                *)
(* (server/routes/refactor.js).                                            *)
(*                                                                         *)
(* Texts (source code, provider replies, file names) are sequences of      *)
(* one-character strings, so that trim, endsWith, includes, split and the  *)
(* regular expressions of the code are computed character by character.    *)
(* Error messages, which the code only passes along, tests for emptiness   *)
(* and joins, are TLA+ strings.                                            *)
(***************************************************************************)
EXTENDS Integers, Sequences, FiniteSets, TLC

VARIABLES
    reply,          \* cleanup: the provider's reply text (choices[0].message.content)
    passes,         \* cleanup: the results of the successive cleanup passes
    mOriginal,      \* metrics: originalCode
    mRefactored,    \* metrics: refactoredCode
    metrics,        \* metrics: <<>>, then <<the object calculateMetrics returns>>
    fname,          \* language: the file's name (originalname, file.name)
    mimetype,       \* language: the uploaded file's MIME type
    accepted,       \* language: <<>>, then <<whether upload.fileFilter accepts>>
    uploadLang,     \* language: <<>>, then <<what POST /upload infers>>
    zipLang,        \* language: <<>>, then <<what POST /refactor-zip derives>>
    animLang,       \* language: <<>>, then <<what POST /refactor-zip-animated derives>>
    sInput,         \* service: the arguments [code, language, settings] of refactorCode
    sPc,            \* service: "start", "awaiting" (axios.post in flight), "settled"
    sRequest,       \* service: <<>>, then <<the prompt sent to the provider>>
    sOutcome,       \* service: <<>>, then <<how the provider call ended>>
    sResult,        \* service: <<>>, then <<how the refactorCode promise settled>>
    bEndpoint,      \* batch: "zip" (/refactor-zip) or "animated" (/refactor-zip-animated)
    bBody,          \* batch: req.body.files, [kind, files]
    bPc,            \* batch: "start", "loop", "await", "responded"
    bIdx,           \* batch: the index of the file the for loop is at
    bOutstanding,   \* batch: the files whose provider call is in flight
    bLog,           \* batch: the calls issued and settled, in order
    bSettled,       \* batch: what each refactorCode call resolved to, in order
    bResults,       \* batch: the results array of the animated handler
    bZip,           \* batch: the entries of outputZip
    bReadme,        \* batch: the lines appended to readmeContent
    bResponse,      \* batch: <<>>, then <<the response sent>>
    uReq,           \* upload: the request object (method, url, body, file, ...)
    uStage,         \* upload: where the request is in the router
    uRoute,         \* upload: <<>>, then <<the path of the route last matched>>
    uDispatches,    \* upload: how often router.handle has run for the request
    uTrace,         \* upload: the route handlers entered, in order
    uCalls,         \* upload: the refactorCode calls made, in order
    uResponses      \* upload: the responses sent, in order

cleanupVars == <<reply, passes>>
metricsVars == <<mOriginal, mRefactored, metrics>>
langVars == <<fname, mimetype, accepted, uploadLang, zipLang, animLang>>
svcVars == <<sInput, sPc, sRequest, sOutcome, sResult>>
batchVars == <<bEndpoint, bBody, bPc, bIdx, bOutstanding, bLog, bSettled,
               bResults, bZip, bReadme, bResponse>>
uploadVars == <<uReq, uStage, uRoute, uDispatches, uTrace, uCalls, uResponses>>
vars == <<cleanupVars, metricsVars, langVars, svcVars, batchVars, uploadVars>>

(***************************************************************************)
(* Characters.  The backquote cannot be written inside a TLA+ string, so   *)
(* BQ stands for U+0060.                                                   *)
(***************************************************************************)
NL == "\n"
SP == " "
BQ == "bq"
DOT == "."
SLASH == "/"

Lower == {"a", "b", "c", "d", "e", "f", "g", "h", "i", "j", "k", "l", "m",
          "n", "o", "p", "q", "r", "s", "t", "u", "v", "w", "x", "y", "z"}
Upper == {"A", "B", "C", "D", "E", "F", "G", "H", "I", "J", "K", "L", "M",
          "N", "O", "P", "Q", "R", "S", "T", "U", "V", "W", "X", "Y", "Z"}
Digits == {"0", "1", "2", "3", "4", "5", "6", "7", "8", "9"}

\* The class \w of a JavaScript regular expression.
IsWord(c) == c \in Lower \cup Upper \cup Digits \cup {"_"}

\* The white space String.prototype.trim removes (the part of it in the alphabet).
IsWhitespace(c) == c \in {SP, NL, "\t", "\r"}

(***************************************************************************)
(* String.prototype methods on texts.                                      *)
(***************************************************************************)
RECURSIVE TrimStart(_)
TrimStart(s) ==
    IF s # <<>> /\ IsWhitespace(Head(s)) THEN TrimStart(Tail(s)) ELSE s

RECURSIVE TrimEnd(_)
TrimEnd(s) ==
    IF s # <<>> /\ IsWhitespace(s[Len(s)])
    THEN TrimEnd(SubSeq(s, 1, Len(s) - 1))
    ELSE s

Trim(s) == TrimEnd(TrimStart(s))

StartsWith(s, p) == Len(s) >= Len(p) /\ SubSeq(s, 1, Len(p)) = p

EndsWith(s, p) ==
    Len(s) >= Len(p) /\ SubSeq(s, Len(s) - Len(p) + 1, Len(s)) = p

Includes(s, p) ==
    \E i \in 1..(Len(s) - Len(p) + 1) : SubSeq(s, i, i + Len(p) - 1) = p

RECURSIVE Flatten(_)
Flatten(ts) == IF ts = <<>> THEN <<>> ELSE Head(ts) \o Flatten(Tail(ts))

\* The texts made of at most n tokens of T.
TokenTexts(T, n) == {Flatten(f) : f \in UNION {[1..k -> T] : k \in 0..n}}

(***************************************************************************)
(* groqService.js:74-80, the cleanup of the provider's reply.              *)
(***************************************************************************)
Fence == <<BQ, BQ, BQ>>

\* The length of the longest run of \w characters of s that starts at i.
RECURSIVE WordRun(_, _)
WordRun(s, i) ==
    IF i <= Len(s) /\ IsWord(s[i]) THEN 1 + WordRun(s, i + 1) ELSE 0

\* .replace(/^```[\w]*\n/, ''): [\w]* is greedy and NL is no \w, so the
\* pattern matches iff the longest word run after the fence is followed by NL.
StripOpeningFence(s) ==
    IF StartsWith(s, Fence)
    THEN LET k == WordRun(s, 4)
         IN  IF Len(s) >= 4 + k /\ s[4 + k] = NL
             THEN SubSeq(s, 5 + k, Len(s))
             ELSE s
    ELSE s

\* .replace(/\n```$/, ''): no m flag, so $ is the end of the text.
StripClosingFence(s) ==
    IF EndsWith(s, <<NL>> \o Fence) THEN SubSeq(s, 1, Len(s) - 4) ELSE s

\* content.trim() and then .replace(...).replace(...).trim()
Cleanup(t) == Trim(StripClosingFence(StripOpeningFence(Trim(t))))

(***************************************************************************)
(* The cleanup specification: the reply is drawn from the texts of at most *)
(* MaxReplyTokens tokens, and cleanup is applied to it and then to its own *)
(* output.                                                                 *)
(***************************************************************************)
MaxReplyTokens == 5
MaxPasses == 2

ReplyTokens == {Fence, <<NL>>, <<SP>>, <<"j", "s">>, <<"x">>}

CleanupIdle == reply = <<>> /\ passes = <<>>
MetricsIdle == mOriginal = <<>> /\ mRefactored = <<>> /\ metrics = <<>>
LangIdle ==
    /\ fname = <<>> /\ mimetype = "" /\ accepted = <<>>
    /\ uploadLang = <<>> /\ zipLang = <<>> /\ animLang = <<>>
SvcIdle ==
    /\ sInput = <<>> /\ sPc = "idle" /\ sRequest = <<>>
    /\ sOutcome = <<>> /\ sResult = <<>>
BatchIdle ==
    /\ bEndpoint = "" /\ bBody = <<>> /\ bPc = "idle" /\ bIdx = 0
    /\ bOutstanding = {} /\ bLog = <<>> /\ bSettled = <<>> /\ bResults = <<>>
    /\ bZip = <<>> /\ bReadme = <<>> /\ bResponse = <<>>
UploadIdle ==
    /\ uReq = <<>> /\ uStage = "idle" /\ uRoute = <<>> /\ uDispatches = 0
    /\ uTrace = <<>> /\ uCalls = <<>> /\ uResponses = <<>>

CleanupInit ==
    /\ reply \in TokenTexts(ReplyTokens, MaxReplyTokens)
    /\ passes = <<>>
    /\ MetricsIdle
    /\ LangIdle
    /\ SvcIdle
    /\ BatchIdle
    /\ UploadIdle

CleanupPass ==
    /\ Len(passes) < MaxPasses
    /\ passes' = Append(passes,
                        Cleanup(IF passes = <<>> THEN reply
                                ELSE passes[Len(passes)]))
    /\ UNCHANGED <<reply, metricsVars, langVars, svcVars, batchVars, uploadVars>>

CleanupNext == CleanupPass

SpecCleanup == CleanupInit /\ [][CleanupNext]_vars

\* C5: cleanup is idempotent, cleanup(cleanup(t)) = cleanup(t) for every
\* reply t, replies with nested or repeated fences and replies with only a
\* closing fence included.
C5_CleanupIdempotent ==
    Len(passes) = 2 => passes[2] = passes[1]

(***************************************************************************)
(* groqService.js:101-127, calculateMetrics and estimateQualityScore.      *)
(* The score is held in tenths (3.0 is 30), the compression ratio as the   *)
(* fraction <<numerator, denominator>>.                                    *)
(***************************************************************************)
\* s.split('\n'): the lines of s, one more than its line breaks.
RECURSIVE SplitLines(_)
SplitLines(s) ==
    IF \A i \in 1..Len(s) : s[i] # NL
    THEN <<s>>
    ELSE LET i == CHOOSE k \in 1..Len(s) :
                      s[k] = NL /\ \A j \in 1..(k - 1) : s[j] # NL
         IN  <<SubSeq(s, 1, i - 1)>> \o SplitLines(SubSeq(s, i + 1, Len(s)))

\* .filter(line => line.trim()).length: the empty string is falsy.
CountNonBlank(s) ==
    Len(SelectSeq(SplitLines(s), LAMBDA line : Trim(line) # <<>>))

\* (s.match(/\/\//g) || []).length: the matches are found left to right
\* and do not overlap.
RECURSIVE CountCommentMarkers(_)
CountCommentMarkers(s) ==
    IF Len(s) < 2 THEN 0
    ELSE IF s[1] = SLASH /\ s[2] = SLASH
         THEN 1 + CountCommentMarkers(SubSeq(s, 3, Len(s)))
         ELSE CountCommentMarkers(Tail(s))

BaseScore == 30
AsyncBonus == 5
CommentBonus == 3
NamingBonus == 2
MinScore == 10
MaxScore == 50

Min(a, b) == IF a < b THEN a ELSE b
Max(a, b) == IF a > b THEN a ELSE b

Async == <<"a", "s", "y", "n", "c">>
Await == <<"a", "w", "a", "i", "t">>
Callback == <<"c", "a", "l", "l", "b", "a", "c", "k">>

hasAsyncAwait(refactoredCode) ==
    Includes(refactoredCode, Async) /\ Includes(refactoredCode, Await)

hasComments(originalCode, refactoredCode) ==
    CountCommentMarkers(refactoredCode) > CountCommentMarkers(originalCode)

\* refactoredCode.length > originalCode.length * 0.8.  The double 0.8 is a
\* little above 4/5 and the product rounds to the nearest double, so for
\* integer lengths the test is 5 * refactored > 4 * original.
hasBetterNamingAtLeast(originalCode, refactoredCode) ==
    5 * Len(refactoredCode) >= 4 * Len(originalCode)

hasBetterNaming(originalCode, refactoredCode) ==
    5 * Len(refactoredCode) > 4 * Len(originalCode)

estimateQualityScore(originalCode, refactoredCode) ==
    LET s0 == BaseScore
        s1 == IF hasAsyncAwait(refactoredCode) /\ Includes(originalCode, Callback)
              THEN s0 + AsyncBonus ELSE s0
        s2 == IF hasComments(originalCode, refactoredCode)
              THEN s1 + CommentBonus ELSE s1
        s3 == IF hasBetterNaming(originalCode, refactoredCode)
              THEN s2 + NamingBonus ELSE s2
    IN  Min(MaxScore, Max(MinScore, s3))

linesReducedUnclamped(originalLines, refactoredLines) ==
    originalLines - refactoredLines

linesReduced(originalLines, refactoredLines) ==
    Max(0, originalLines - refactoredLines)

calculateMetrics(originalCode, refactoredCode) ==
    LET originalLines == CountNonBlank(originalCode)
        refactoredLines == CountNonBlank(refactoredCode)
    IN  [originalLines |-> originalLines,
         refactoredLines |-> refactoredLines,
         linesReduced |-> linesReduced(originalLines, refactoredLines),
         compressionRatio |-> IF originalLines > 0
                              THEN <<refactoredLines, originalLines>>
                              ELSE <<1, 1>>,
         qualityScore |-> estimateQualityScore(originalCode, refactoredCode)]

(***************************************************************************)
(* The metrics specification: calculateMetrics applied to every pair of    *)
(* an original of at most MaxOrigTokens tokens and a refactored text of at *)
(* most MaxRefTokens tokens.                                               *)
(***************************************************************************)
MaxOrigTokens == 2
MaxRefTokens == 3

OrigTokens == {Callback, <<SLASH, SLASH>>, <<NL>>, <<"x">>}
RefTokens == {Async, Await, <<SLASH, SLASH>>, <<NL>>, <<SP>>, <<"x">>}

\* The originals are not empty: the single-snippet handler rejects empty
\* code before it calls the service.
MetricsInit ==
    /\ mOriginal \in TokenTexts(OrigTokens, MaxOrigTokens) \ {<<>>}
    /\ mRefactored \in TokenTexts(RefTokens, MaxRefTokens)
    /\ metrics = <<>>
    /\ CleanupIdle
    /\ LangIdle
    /\ SvcIdle
    /\ BatchIdle
    /\ UploadIdle

CalculateMetrics ==
    /\ metrics = <<>>
    /\ metrics' = <<calculateMetrics(mOriginal, mRefactored)>>
    /\ UNCHANGED <<mOriginal, mRefactored, cleanupVars, langVars, svcVars,
                   batchVars, uploadVars>>

MetricsNext == CalculateMetrics

SpecMetrics == MetricsInit /\ [][MetricsNext]_vars

\* The non-blank lines of s, counted without splitting: the positions that
\* hold the first character of their line that is not white space.
NonBlankLines(s) ==
    Cardinality({i \in 1..Len(s) :
        /\ ~IsWhitespace(s[i])
        /\ \A j \in 1..(i - 1) :
              (\A k \in j..(i - 1) : s[k] # NL) => IsWhitespace(s[j])})

\* The // markers of s, counted without scanning: in a run of slashes every
\* second one closes a marker.
CommentMarkers(s) ==
    Cardinality({i \in 1..Len(s) :
        /\ s[i] = SLASH
        /\ LET run == CHOOSE n \in 1..i :
                          /\ \A k \in (i - n + 1)..i : s[k] = SLASH
                          /\ (i - n = 0 \/ s[i - n] # SLASH)
           IN  run % 2 = 0})

ExpectedScore(o, r, naming) ==
    LET sum == 30
               + (IF Includes(r, Async) /\ Includes(r, Await)
                     /\ Includes(o, Callback) THEN 5 ELSE 0)
               + (IF CommentMarkers(r) > CommentMarkers(o) THEN 3 ELSE 0)
               + (IF naming THEN 2 ELSE 0)
    IN  IF sum < 10 THEN 10 ELSE IF sum > 50 THEN 50 ELSE sum

\* C8 as stated: the 0.2 bonus is granted when the refactored length is at
\* least 80% of the original length, exactly 80% included.
C8_BonusAtLeast80 ==
    metrics # <<>> =>
        metrics[1].qualityScore =
            ExpectedScore(mOriginal, mRefactored,
                          5 * Len(mRefactored) >= 4 * Len(mOriginal))

\* C8 amended: the score is 3.0, plus 0.5 when the refactored text contains
\* async and await and the original contains callback, plus 0.3 when the
\* refactored text has strictly more // markers, plus 0.2 when the refactored
\* length is strictly more than 80% of the original length, clamped to
\* [1.0, 5.0].
C8_QualityScore ==
    metrics # <<>> =>
        /\ metrics[1].qualityScore =
               ExpectedScore(mOriginal, mRefactored,
                             5 * Len(mRefactored) > 4 * Len(mOriginal))
        /\ metrics[1].qualityScore >= 10
        /\ metrics[1].qualityScore <= 50

\* A refactored text of exactly 80% of a non-empty original has been scored.
C8_Witness ==
    /\ metrics # <<>>
    /\ Len(mOriginal) > 0
    /\ 5 * Len(mRefactored) = 4 * Len(mOriginal)

\* C9: only non-blank lines are counted, linesReduced is
\* max(0, originalLines - refactoredLines) and never negative, and
\* compressionRatio is refactoredLines / originalLines when originalLines > 0
\* and exactly 1 when originalLines is 0.
C9_Metrics ==
    metrics # <<>> =>
        LET o == NonBlankLines(mOriginal)
            r == NonBlankLines(mRefactored)
            m == metrics[1]
        IN  /\ m.originalLines = o
            /\ m.refactoredLines = r
            /\ m.linesReduced >= 0
            /\ m.linesReduced = (IF o >= r THEN o - r ELSE 0)
            /\ o > 0 => m.compressionRatio = <<r, o>>
            /\ o = 0 => m.compressionRatio = <<1, 1>>

\* Metrics have been computed for a refactored text with more non-blank lines
\* than its original, which has none.
C9_Witness ==
    /\ metrics # <<>>
    /\ metrics[1].originalLines = 0
    /\ metrics[1].refactoredLines > metrics[1].originalLines
    /\ \E i \in 1..Len(mOriginal) : mOriginal[i] = NL

(***************************************************************************)
(* refactor.js:14-28, 99-107, 199-203, 237-241: the upload filter and the  *)
(* three language detections.                                              *)
(***************************************************************************)
UpperSeq == <<"A", "B", "C", "D", "E", "F", "G", "H", "I", "J", "K", "L", "M",
              "N", "O", "P", "Q", "R", "S", "T", "U", "V", "W", "X", "Y", "Z">>
LowerSeq == <<"a", "b", "c", "d", "e", "f", "g", "h", "i", "j", "k", "l", "m",
              "n", "o", "p", "q", "r", "s", "t", "u", "v", "w", "x", "y", "z">>

ToLowerCase(s) ==
    [i \in 1..Len(s) |->
        IF s[i] \in Upper
        THEN LowerSeq[CHOOSE k \in 1..Len(UpperSeq) : UpperSeq[k] = s[i]]
        ELSE s[i]]

ExtJs == <<DOT, "j", "s">>
ExtJsx == <<DOT, "j", "s", "x">>
ExtTs == <<DOT, "t", "s">>
ExtTsx == <<DOT, "t", "s", "x">>
ExtJson == <<DOT, "j", "s", "o", "n">>
Server == <<"s", "e", "r", "v", "e", "r">>
Api == <<"a", "p", "i">>

allowedTypes == {"application/javascript", "text/javascript", "text/plain"}
allowedExtensions == {ExtJs, ExtJsx, ExtTs, ExtTsx, ExtJson}

\* upload.fileFilter: cb(null, true) or cb(new Error(...))
fileFilter(originalname, type) ==
    LET hasValidType == type \in allowedTypes
        hasValidExtension ==
            \E ext \in allowedExtensions :
                EndsWith(ToLowerCase(originalname), ext)
    IN  hasValidType \/ hasValidExtension

\* POST /upload, lines 99-107: the tests read filename as it was sent.
UploadLanguage(filename) ==
    IF EndsWith(filename, ExtTsx) \/ EndsWith(filename, ExtJsx) THEN "react"
    ELSE IF EndsWith(filename, ExtTs) THEN "typescript"
    ELSE IF Includes(filename, Server) \/ Includes(filename, Api) THEN "nodejs"
    ELSE "javascript"

\* Node's path.extname (posix), scanning from the end with 0-based indices:
\* the extension of the last path segment, from its last dot, and '' when
\* the segment has no dot or only a leading one.
RECURSIVE ExtScan(_, _, _)
ExtScan(path, i, st) ==
    IF i < 0 THEN st
    ELSE LET c == path[i + 1]
         IN  IF c = SLASH
             THEN IF ~st.matchedSlash
                  THEN [st EXCEPT !.startPart = i + 1]
                  ELSE ExtScan(path, i - 1, st)
             ELSE LET st1 == IF st.end = -1
                             THEN [st EXCEPT !.matchedSlash = FALSE, !.end = i + 1]
                             ELSE st
                      st2 == IF c = DOT
                             THEN IF st1.startDot = -1
                                  THEN [st1 EXCEPT !.startDot = i]
                                  ELSE IF st1.preDotState # 1
                                       THEN [st1 EXCEPT !.preDotState = 1]
                                       ELSE st1
                             ELSE IF st1.startDot # -1
                                  THEN [st1 EXCEPT !.preDotState = -1]
                                  ELSE st1
                  IN  ExtScan(path, i - 1, st2)

extname(path) ==
    LET st == ExtScan(path, Len(path) - 1,
                      [startDot |-> -1, startPart |-> 0, end |-> -1,
                       matchedSlash |-> TRUE, preDotState |-> 0])
    IN  IF \/ st.startDot = -1
           \/ st.end = -1
           \/ st.preDotState = 0
           \/ /\ st.preDotState = 1
              /\ st.startDot = st.end - 1
              /\ st.startDot = st.startPart + 1
        THEN <<>>
        ELSE SubSeq(path, st.startDot + 1, st.end)

\* The derivation both batch endpoints spell out (lines 199-203, 237-241).
ExtLanguage(ext) ==
    IF ext = ExtJsx \/ ext = ExtTsx THEN "react"
    ELSE IF ext = ExtTs THEN "typescript"
    ELSE IF ext = ExtJson THEN "json"
    ELSE "javascript"

\* POST /refactor-zip, lines 199-203.
ZipLanguage(name) == ExtLanguage(ToLowerCase(extname(name)))

\* POST /refactor-zip-animated, lines 237-241.
AnimatedLanguage(name) == ExtLanguage(ToLowerCase(extname(name)))

(***************************************************************************)
(* The language specification: a file name of at most MaxNameTokens tokens *)
(* goes through the upload filter and the three detections.                *)
(***************************************************************************)
MaxNameTokens == 3

NameTokens == {Api, Server, <<"a">>, <<"-">>, ExtJs, ExtTs, ExtTsx, ExtJsx,
               ExtJson, <<DOT, "T", "S">>, <<DOT, "J", "s", "x">>,
               <<DOT, "p", "n", "g">>}
MimeTypes == {"text/plain", "image/png"}

\* The names have a stem: they do not start with a dot.
LangInit ==
    /\ fname \in {n \in TokenTexts(NameTokens, MaxNameTokens) :
                      n # <<>> /\ n[1] # DOT}
    /\ mimetype \in MimeTypes
    /\ accepted = <<>>
    /\ uploadLang = <<>> /\ zipLang = <<>> /\ animLang = <<>>
    /\ CleanupIdle
    /\ MetricsIdle
    /\ SvcIdle
    /\ BatchIdle
    /\ UploadIdle

FilterUpload ==
    /\ accepted = <<>>
    /\ accepted' = <<fileFilter(fname, mimetype)>>
    /\ UNCHANGED <<fname, mimetype, uploadLang, zipLang, animLang,
                   cleanupVars, metricsVars, svcVars, batchVars, uploadVars>>

DetectUpload ==
    /\ accepted = <<TRUE>>
    /\ uploadLang = <<>>
    /\ uploadLang' = <<UploadLanguage(fname)>>
    /\ UNCHANGED <<fname, mimetype, accepted, zipLang, animLang,
                   cleanupVars, metricsVars, svcVars, batchVars, uploadVars>>

DetectZip ==
    /\ zipLang = <<>>
    /\ zipLang' = <<ZipLanguage(fname)>>
    /\ UNCHANGED <<fname, mimetype, accepted, uploadLang, animLang,
                   cleanupVars, metricsVars, svcVars, batchVars, uploadVars>>

DetectAnimated ==
    /\ animLang = <<>>
    /\ animLang' = <<AnimatedLanguage(fname)>>
    /\ UNCHANGED <<fname, mimetype, accepted, uploadLang, zipLang,
                   cleanupVars, metricsVars, svcVars, batchVars, uploadVars>>

LangNext == FilterUpload \/ DetectUpload \/ DetectZip \/ DetectAnimated

SpecLang == LangInit /\ [][LangNext]_vars

\* The mapping C6 states, the extensions compared without regard to case as
\* the filter compares them.
StatedUploadLanguage(name) ==
    LET lower == ToLowerCase(name)
    IN  IF EndsWith(lower, ExtTsx) \/ EndsWith(lower, ExtJsx) THEN "react"
        ELSE IF EndsWith(lower, ExtTs) THEN "typescript"
        ELSE IF Includes(name, Server) \/ Includes(name, Api) THEN "nodejs"
        ELSE "javascript"

\* C6: for every file name the upload filter accepts, the upload endpoint
\* infers react for .tsx/.jsx, typescript for .ts, nodejs for a name
\* containing server or api, javascript otherwise, whatever the letter case
\* of the extension.
C6_UploadLanguage ==
    uploadLang # <<>> => uploadLang[1] = StatedUploadLanguage(fname)

\* C7: for every file name that does not end in .json, both batch endpoints
\* pass the language the upload endpoint infers for that name, and the two
\* batch endpoints agree on every name.
C7_BatchLanguage ==
    /\ (zipLang # <<>> /\ ~EndsWith(fname, ExtJson))
           => zipLang[1] = UploadLanguage(fname)
    /\ (animLang # <<>> /\ ~EndsWith(fname, ExtJson))
           => animLang[1] = UploadLanguage(fname)
    /\ (zipLang # <<>> /\ animLang # <<>>) => zipLang = animLang

(***************************************************************************)
(* groqService.js:11-99, generateRefactorPrompt and refactorCode.          *)
(*                                                                         *)
(* A completion is how a call ends: [type |-> "return", value |-> v] or    *)
(* [type |-> "throw", error |-> e].  An error is                           *)
(* [message, hasResponse, status, providerMessage]: axios sets response on *)
(* a non-2xx reply only.  Undefined is JavaScript's undefined.             *)
(***************************************************************************)
Undefined == "<undefined>"
Null == "<null>"

\* a || b on strings: undefined and '' are falsy.
JsOr(a, b) == IF a = Undefined \/ a = "" THEN b ELSE a

\* a ?? b: only undefined and null are replaced.
JsNullish(a, b) == IF a = Undefined \/ a = Null THEN b ELSE a

Return(v) == [type |-> "return", value |-> v]
Throw(e) == [type |-> "throw", error |-> e]

NullSettings == {Null}

PlainError(msg) ==
    [message |-> msg, hasResponse |-> FALSE, status |-> Undefined,
     providerMessage |-> Undefined]

languageInstructions ==
    [javascript |-> "JavaScript ES6+",
     typescript |-> "TypeScript with proper type annotations",
     react |-> "React functional components with hooks",
     nodejs |-> "Node.js with modern async/await patterns"]

\* settings is the set of the flags that are set, and NullSettings is null:
\* reading a property of null throws a TypeError.
generateRefactorPrompt(originalCode, language, settings) ==
    IF settings = NullSettings
    THEN Throw(PlainError("Cannot read properties of null (reading 'addComments')"))
    ELSE Return([instruction |-> IF language \in DOMAIN languageInstructions
                                 THEN languageInstructions[language]
                                 ELSE "JavaScript",
                 directives |-> (1..7)
                     \cup (IF "addComments" \in settings THEN {8} ELSE {})
                     \cup (IF "improveNaming" \in settings THEN {9} ELSE {})
                     \cup (IF "removeDeadCode" \in settings THEN {10} ELSE {}),
                 fenceTag |-> language,
                 code |-> originalCode])

\* What awaiting axios.post yields for a provider outcome: the response, or
\* the error axios rejects with.
AxiosPost(outcome) ==
    CASE outcome.kind \in {"ok", "noChoices", "emptyChoices", "nullContent"} ->
             Return(outcome)
      [] outcome.kind = "http" ->
             Throw([message |-> "Request failed with status code " \o outcome.status,
                    hasResponse |-> TRUE,
                    status |-> outcome.status,
                    providerMessage |-> outcome.providerMessage])
      [] outcome.kind = "network" -> Throw(PlainError("Network Error"))
      [] outcome.kind = "timeout" ->
             Throw(PlainError("timeout of 30000ms exceeded"))

\* Lines 74-87: the reading of the response and the success result.
ReadResponse(originalCode, response) ==
    CASE response.kind = "noChoices" ->
             Throw(PlainError("Cannot read properties of undefined (reading '0')"))
      [] response.kind = "emptyChoices" ->
             Throw(PlainError("Cannot read properties of undefined (reading 'message')"))
      [] response.kind = "nullContent" ->
             Throw(PlainError("Cannot read properties of null (reading 'trim')"))
      [] response.kind = "ok" ->
             LET cleanedCode == Cleanup(response.content)
             IN  Return([success |-> TRUE,
                         refactoredCode |-> cleanedCode,
                         metrics |-> calculateMetrics(originalCode, cleanedCode),
                         tokenUsage |-> response.usage])

\* Lines 88-98, with the message taken by ?? in place of ||.
CatchBlockNullish(error) ==
    Return([success |-> FALSE,
            error |-> [message |-> JsNullish(error.providerMessage, error.message),
                       code |-> JsOr(error.status, "UNKNOWN_ERROR")]])

\* Lines 88-98: the catch block.
CatchBlock(error) ==
    Return([success |-> FALSE,
            error |-> [message |-> JsOr(error.providerMessage, error.message),
                       code |-> JsOr(error.status, "UNKNOWN_ERROR")]])

\* refactorCode once the provider call has ended with `outcome` (which is
\* not read when the prompt cannot be built).
refactorCode(originalCode, language, settings, outcome) ==
    LET prompt == generateRefactorPrompt(originalCode, language, settings)
    IN  IF prompt.type = "throw" THEN CatchBlock(prompt.error)
        ELSE LET response == AxiosPost(outcome)
             IN  IF response.type = "throw" THEN CatchBlock(response.error)
                 ELSE LET done == ReadResponse(originalCode, response.value)
                      IN  IF done.type = "throw" THEN CatchBlock(done.error)
                          ELSE done

(***************************************************************************)
(* The service specification: one call of refactorCode, the provider       *)
(* ending it in every way it can.                                          *)
(***************************************************************************)
MaxCodeTokens == 2
MaxContentTokens == 3

CodeTokens == {Callback, <<NL>>, <<"x">>}
ContentTokens == {Fence, <<NL>>, <<"x">>}
Languages == {"javascript", "typescript", "react", "nodejs", "json", "cobol"}
SettingsValues == {NullSettings, {}, {"addComments", "removeDeadCode"}}
HttpStatuses == {"401", "429", "500"}
ProviderMessages == {Undefined, "", "Rate limit reached"}

ProviderOutcomes(contents) ==
    {[kind |-> "ok", content |-> c, usage |-> u] :
         c \in contents, u \in {Undefined, "usage"}}
    \cup {[kind |-> k] : k \in {"noChoices", "emptyChoices", "nullContent",
                                "network", "timeout"}}
    \cup {[kind |-> "http", status |-> st, providerMessage |-> m] :
              st \in HttpStatuses, m \in ProviderMessages}

SvcInit ==
    /\ sInput \in {<<[code |-> c, language |-> l, settings |-> st]>> :
                       c \in TokenTexts(CodeTokens, MaxCodeTokens),
                       l \in Languages, st \in SettingsValues}
    /\ sPc = "start"
    /\ sRequest = <<>> /\ sOutcome = <<>> /\ sResult = <<>>
    /\ CleanupIdle
    /\ MetricsIdle
    /\ LangIdle
    /\ BatchIdle
    /\ UploadIdle

\* Lines 46-72: the prompt is built and the request sent; a prompt that
\* cannot be built is caught at once.
SvcSend ==
    /\ sPc = "start"
    /\ LET in == sInput[1]
           prompt == generateRefactorPrompt(in.code, in.language, in.settings)
       IN  IF prompt.type = "throw"
           THEN /\ sPc' = "settled"
                /\ sResult' = <<CatchBlock(prompt.error)>>
                /\ UNCHANGED sRequest
           ELSE /\ sPc' = "awaiting"
                /\ sRequest' = <<prompt.value>>
                /\ UNCHANGED sResult
    /\ UNCHANGED <<sInput, sOutcome, cleanupVars, metricsVars, langVars, batchVars,
                   uploadVars>>

\* Lines 72-98: the provider call ends and the promise settles.
SvcSettle ==
    /\ sPc = "awaiting"
    /\ \E outcome \in ProviderOutcomes(TokenTexts(ContentTokens, MaxContentTokens)) :
          /\ sOutcome' = <<outcome>>
          /\ sResult' = <<refactorCode(sInput[1].code, sInput[1].language,
                                       sInput[1].settings, outcome)>>
    /\ sPc' = "settled"
    /\ UNCHANGED <<sInput, sRequest, cleanupVars, metricsVars, langVars, batchVars,
                   uploadVars>>

SvcNext == SvcSend \/ SvcSettle

SpecService == SvcInit /\ [][SvcNext]_vars

\* C1: refactorCode never throws to its caller; for every provider outcome
\* it resolves to success:true with refactoredCode and metrics, no error
\* field and a qualityScore in [1.0, 5.0], or to success:false with an error
\* whose message is non-empty and with no refactoredCode or metrics.
C1_TaggedResult ==
    sResult # <<>> =>
        /\ sResult[1].type = "return"
        /\ LET r == sResult[1].value
           IN  IF r.success
               THEN /\ {"refactoredCode", "metrics"} \subseteq DOMAIN r
                    /\ "error" \notin DOMAIN r
                    /\ r.metrics.qualityScore >= 10
                    /\ r.metrics.qualityScore <= 50
                    /\ sOutcome # <<>> /\ sOutcome[1].kind = "ok"
               ELSE /\ "error" \in DOMAIN r
                    /\ r.error.message \notin {"", Undefined, Null}
                    /\ "refactoredCode" \notin DOMAIN r
                    /\ "metrics" \notin DOMAIN r

\* A non-2xx reply whose body carries an empty error message has been
\* turned into a failure result.
C1_Witness ==
    /\ sResult # <<>>
    /\ sOutcome # <<>>
    /\ sOutcome[1].kind = "http"
    /\ sOutcome[1].providerMessage = ""
    /\ ~sResult[1].value.success

(***************************************************************************)
(* refactor.js:189-264, the two batch endpoints.  An archive is the        *)
(* sequence of its entries [entryName, data]; the README is kept as its    *)
(* lines after the heading, each [path, chars] for "- <path> (<n> chars)". *)
(* Buffer.from(text, 'utf-8') keeps the texts of the alphabet as they are. *)
(***************************************************************************)
SrcPrefix == <<"s", "r", "c", "/">>
ReadmeName == <<"R", "E", "A", "D", "M", "E", ".", "m", "d">>

\* AdmZip.addFile: an entry of that name is replaced, a new one is appended.
addFile(zip, entryName, data) ==
    IF \E k \in 1..Len(zip) : zip[k].entryName = entryName
    THEN [k \in 1..Len(zip) |->
             IF zip[k].entryName = entryName
             THEN [entryName |-> entryName, data |-> data]
             ELSE zip[k]]
    ELSE Append(zip, [entryName |-> entryName, data |-> data])

\* Array.prototype.join('; ') on messages.
RECURSIVE Join(_)
Join(msgs) ==
    IF msgs = <<>> THEN ""
    ELSE IF Len(msgs) = 1 THEN msgs[1]
    ELSE msgs[1] \o "; " \o Join(Tail(msgs))

\* result.success && result.refactoredCode: the empty string is falsy.
Usable(result) == result.success /\ result.refactoredCode # <<>>

\* Lines 204-210 without the test of result.refactoredCode.
ZipCodeUnguarded(file, result) ==
    IF result.success THEN result.refactoredCode ELSE file.content

\* Lines 204-210: what /refactor-zip writes for a file.
ZipCode(file, result) ==
    IF Usable(result) THEN result.refactoredCode ELSE file.content

\* Lines 242-254: the entry /refactor-zip-animated pushes for a file.
AnimatedEntry(file, result) ==
    IF Usable(result)
    THEN [name |-> file.name, refactoredCode |-> result.refactoredCode,
          error |-> Null]
    ELSE [name |-> file.name, refactoredCode |-> file.content,
          error |-> JsOr(IF "error" \in DOMAIN result
                         THEN result.error.message ELSE Undefined,
                         "Unknown error")]

\* f.error as a condition: null and '' are falsy.
Truthy(e) == e \notin {Null, Undefined, ""}

allFailedSome(results) == \E k \in 1..Len(results) : Truthy(results[k].error)

\* Line 256: results.every(f => f.error)
allFailed(results) == \A k \in 1..Len(results) : Truthy(results[k].error)

\* The loop goes on with the same file when its call failed.
RetryFailed(i, result) == IF result.success THEN i + 1 ELSE i

\* for (const file of files): after the body the loop is at the next file.
NextFile(i, result) == i + 1

noFiles(body) == body.kind # "array" \/ Len(body.files) = 0

NoFilesResponse ==
    [status |-> 400, kind |-> "json",
     body |-> [error |-> [message |-> "No files provided"]]]

(***************************************************************************)
(* The batch specification: one request to a batch endpoint, with at most  *)
(* MaxFiles files; every provider call ends in one of BatchOutcomes.       *)
(***************************************************************************)
MaxFiles == 2

BatchNames == {<<"a">> \o ExtTs, Api \o ExtJs}
BatchContents == {<<"x">>, <<"y", NL, "y">>}
BatchFiles == [name : BatchNames, content : BatchContents]
BatchBodies ==
    {[kind |-> k, files |-> <<>>] : k \in {"missing", "notArray"}}
    \cup {[kind |-> "array", files |-> f] :
              f \in UNION {[1..n -> BatchFiles] : n \in 0..MaxFiles}}
BatchOutcomes ==
    {[kind |-> "ok", content |-> c, usage |-> "usage"] : c \in {<<"z">>, <<>>}}
    \cup {[kind |-> "http", status |-> "429",
           providerMessage |-> "Rate limit reached"],
          [kind |-> "timeout"]}

BatchInit ==
    /\ bEndpoint \in {"zip", "animated"}
    /\ bBody \in BatchBodies
    /\ bPc = "start"
    /\ bIdx = 0
    /\ bOutstanding = {} /\ bLog = <<>> /\ bSettled = <<>> /\ bResults = <<>>
    /\ bZip = <<>> /\ bReadme = <<>> /\ bResponse = <<>>
    /\ CleanupIdle
    /\ MetricsIdle
    /\ LangIdle
    /\ SvcIdle
    /\ UploadIdle

NotBatch ==
    UNCHANGED <<cleanupVars, metricsVars, langVars, svcVars, uploadVars>>

\* Lines 192-197 and 231-235: the check of files, common to both handlers.
BatchEnter(endpoint) ==
    /\ bEndpoint = endpoint
    /\ bPc = "start"
    /\ IF noFiles(bBody)
       THEN /\ bResponse' = <<NoFilesResponse>>
            /\ bPc' = "responded"
            /\ UNCHANGED bIdx
       ELSE /\ bPc' = "loop"
            /\ bIdx' = 1
            /\ UNCHANGED bResponse
    /\ UNCHANGED <<bEndpoint, bBody, bOutstanding, bLog, bSettled, bResults,
                   bZip, bReadme>>
    /\ NotBatch

\* The call of groqService.refactorCode for the file the loop is at; the
\* handler then waits at its await.
BatchCall(endpoint, language) ==
    /\ bEndpoint = endpoint
    /\ bPc = "loop"
    /\ bIdx <= Len(bBody.files)
    /\ bOutstanding' = bOutstanding \cup {bIdx}
    /\ bLog' = Append(bLog, [event |-> "call", file |-> bIdx,
                             language |-> language])
    /\ bPc' = "await"
    /\ UNCHANGED <<bEndpoint, bBody, bIdx, bSettled, bResults, bZip, bReadme,
                   bResponse>>
    /\ NotBatch

ZipStart == BatchEnter("zip")

\* Lines 198-206.
ZipCall == BatchCall("zip", ZipLanguage(bBody.files[bIdx].name))

\* Lines 206-213: the call resolves and the rest of the loop body runs.
ZipSettle ==
    /\ bEndpoint = "zip"
    /\ bPc = "await"
    /\ \E outcome \in BatchOutcomes :
          LET file == bBody.files[bIdx]
              done == refactorCode(file.content, ZipLanguage(file.name), {},
                                   outcome)
              refactoredCode == IF done.type = "return"
                                THEN ZipCode(file, done.value)
                                ELSE file.content
          IN  /\ bSettled' = Append(bSettled, done)
              /\ bZip' = addFile(bZip, SrcPrefix \o file.name, refactoredCode)
              /\ bReadme' = Append(bReadme,
                                   [path |-> SrcPrefix \o file.name,
                                    chars |-> Len(refactoredCode)])
              /\ bIdx' = NextFile(bIdx, done.value)
    /\ bOutstanding' = bOutstanding \ {bIdx}
    /\ bLog' = Append(bLog, [event |-> "settle", file |-> bIdx])
    /\ bPc' = "loop"
    /\ UNCHANGED <<bEndpoint, bBody, bResults, bResponse>>
    /\ NotBatch

\* Lines 214-221: the README is added and the archive sent.
ZipRespond ==
    /\ bEndpoint = "zip"
    /\ bPc = "loop"
    /\ bIdx > Len(bBody.files)
    /\ bZip' = addFile(bZip, ReadmeName, bReadme)
    /\ bResponse' = <<[status |-> 200, kind |-> "zip", entries |-> bZip']>>
    /\ bPc' = "responded"
    /\ UNCHANGED <<bEndpoint, bBody, bIdx, bOutstanding, bLog, bSettled,
                   bResults, bReadme>>
    /\ NotBatch

AnimatedStart == BatchEnter("animated")

\* Lines 236-245.
AnimatedCall ==
    BatchCall("animated", AnimatedLanguage(bBody.files[bIdx].name))

\* Lines 245-254: the call resolves and the entry is pushed.
AnimatedSettle ==
    /\ bEndpoint = "animated"
    /\ bPc = "await"
    /\ \E outcome \in BatchOutcomes :
          LET file == bBody.files[bIdx]
              done == refactorCode(file.content, AnimatedLanguage(file.name),
                                   {}, outcome)
              entry == IF done.type = "return"
                       THEN AnimatedEntry(file, done.value)
                       ELSE [name |-> file.name, refactoredCode |-> file.content,
                             error |-> done.error.message]
          IN  /\ bSettled' = Append(bSettled, done)
              /\ bResults' = Append(bResults, entry)
              /\ bIdx' = NextFile(bIdx, done.value)
    /\ bOutstanding' = bOutstanding \ {bIdx}
    /\ bLog' = Append(bLog, [event |-> "settle", file |-> bIdx])
    /\ bPc' = "loop"
    /\ UNCHANGED <<bEndpoint, bBody, bZip, bReadme, bResponse>>
    /\ NotBatch

\* Lines 256-260.
AnimatedRespond ==
    /\ bEndpoint = "animated"
    /\ bPc = "loop"
    /\ bIdx > Len(bBody.files)
    /\ bResponse' =
          IF allFailed(bResults)
          THEN <<[status |-> 500, kind |-> "json",
                  body |-> [error |->
                      [message |-> "All files failed to refactor",
                       details |-> Join([k \in 1..Len(bResults) |->
                                            bResults[k].error])]]]>>
          ELSE <<[status |-> 200, kind |-> "json",
                  body |-> [success |-> TRUE, files |-> bResults]]>>
    /\ bPc' = "responded"
    /\ UNCHANGED <<bEndpoint, bBody, bIdx, bOutstanding, bLog, bSettled,
                   bResults, bZip, bReadme>>
    /\ NotBatch

BatchNext ==
    \/ ZipStart \/ ZipCall \/ ZipSettle \/ ZipRespond
    \/ AnimatedStart \/ AnimatedCall \/ AnimatedSettle \/ AnimatedRespond

SpecBatch == BatchInit /\ [][BatchNext]_vars

\* The request is answered, and it held a non-empty array of files.
BatchAnswered(endpoint) ==
    /\ bEndpoint = endpoint
    /\ bResponse # <<>>
    /\ bBody.kind = "array"
    /\ Len(bBody.files) > 0

DistinctNames(files) ==
    \A i, j \in 1..Len(files) : files[i].name = files[j].name => i = j

\* What file i's refactorCode call resolved to.
Resolved(i) == bSettled[i].value

CallFailed(i) == ~Resolved(i).success

\* The call did not yield code to use: it failed, or it succeeded with an
\* empty refactoredCode.
NoCode(i) == CallFailed(i) \/ Resolved(i).refactoredCode = <<>>

EntryMessage(i) ==
    IF CallFailed(i) THEN Resolved(i).error.message ELSE "Unknown error"

RECURSIVE Semicolons(_, _)
Semicolons(msg, n) ==
    IF n = 0 THEN "" ELSE IF n = 1 THEN msg[1]
    ELSE Semicolons(msg, n - 1) \o "; " \o msg[n]

\* C2 as stated: /refactor-zip-animated answers with a server error iff every
\* file's refactor call failed, the details then holding every file's error
\* message in input order; otherwise success:true with one entry per file in
\* input order, an entry's error non-null exactly when that file's call
\* failed, and every failed entry's refactoredCode the original content.
C2_ErrorIffAllCallsFailed ==
    BatchAnswered("animated") =>
        LET files == bBody.files
            res == bResponse[1]
        IN  /\ res.status = 500 <=> \A i \in 1..Len(files) : CallFailed(i)
            /\ res.status # 500 =>
                  /\ res.body.success
                  /\ Len(res.body.files) = Len(files)
                  /\ \A i \in 1..Len(files) :
                        /\ res.body.files[i].name = files[i].name
                        /\ res.body.files[i].error # Null <=> CallFailed(i)
                        /\ CallFailed(i) =>
                              res.body.files[i].refactoredCode = files[i].content

\* C2 amended: the server error is sent iff every file's call failed or
\* resolved with an empty refactoredCode; its details are the entries'
\* messages (the call's error message, "Unknown error" for an empty
\* refactoredCode) joined by "; " in input order.  Otherwise success:true
\* with one entry per file in input order, an entry's error non-null exactly
\* when the call failed or resolved with an empty refactoredCode, such an
\* entry holding the original content and every other entry the refactored
\* code.
C2_AnimatedResponse ==
    BatchAnswered("animated") =>
        LET files == bBody.files
            res == bResponse[1]
        IN  /\ res.status = 500 <=> \A i \in 1..Len(files) : NoCode(i)
            /\ res.status = 500 =>
                  /\ res.body.error.message = "All files failed to refactor"
                  /\ res.body.error.details =
                         Semicolons([i \in 1..Len(files) |-> EntryMessage(i)],
                                    Len(files))
            /\ res.status # 500 =>
                  /\ res.status = 200
                  /\ res.body.success
                  /\ Len(res.body.files) = Len(files)
                  /\ \A i \in 1..Len(files) :
                        LET entry == res.body.files[i]
                        IN  /\ entry.name = files[i].name
                            /\ entry.error # Null <=> NoCode(i)
                            /\ NoCode(i) =>
                                  /\ entry.refactoredCode = files[i].content
                                  /\ entry.error = EntryMessage(i)
                            /\ ~NoCode(i) =>
                                  entry.refactoredCode = Resolved(i).refactoredCode

\* A batch of two files, both without usable code and for different reasons,
\* has been answered by the animated endpoint.
C2_Witness ==
    /\ BatchAnswered("animated")
    /\ Len(bBody.files) = 2
    /\ CallFailed(1)
    /\ ~CallFailed(2) /\ NoCode(2)

\* The archive the zip endpoint is to send when file i's content is code(i).
ArchiveOf(files, code(_)) ==
    [i \in 1..(Len(files) + 1) |->
        IF i <= Len(files)
        THEN [entryName |-> <<"s", "r", "c", "/">> \o files[i].name,
              data |-> code(i)]
        ELSE [entryName |-> <<"R", "E", "A", "D", "M", "E", ".", "m", "d">>,
              data |-> [k \in 1..Len(files) |->
                           [path |-> <<"s", "r", "c", "/">> \o files[k].name,
                            chars |-> Len(code(k))]]]]

ZipRejected ==
    /\ bResponse[1].status = 400
    /\ bResponse[1].kind = "json"
    /\ bLog = <<>>
    /\ bZip = <<>>

\* C3 as stated: /refactor-zip answers 400 with no refactor call and no
\* archive when files is missing, not an array or empty; for a non-empty
\* array with distinct names it always answers with an archive of one
\* src/<name> per file plus README.md, src/<name> holding the refactored code
\* if the call succeeded and the original content if it failed, the README
\* listing every src/<name> with the character count written, in input order.
C3_RefactoredIffCallSucceeded ==
    (bEndpoint = "zip" /\ bResponse # <<>>) =>
        /\ noFiles(bBody) => ZipRejected
        /\ (~noFiles(bBody) /\ DistinctNames(bBody.files)) =>
              LET code(i) == IF CallFailed(i) THEN bBody.files[i].content
                             ELSE Resolved(i).refactoredCode
              IN  /\ bResponse[1].kind = "zip"
                  /\ bResponse[1].entries = ArchiveOf(bBody.files, code)

\* C3 amended: as stated, but src/<name> holds the refactored code only if
\* the call succeeded with a non-empty refactoredCode, and the original
\* content if the call failed or resolved with an empty refactoredCode.
C3_ZipArchive ==
    (bEndpoint = "zip" /\ bResponse # <<>>) =>
        /\ noFiles(bBody) => ZipRejected
        /\ (~noFiles(bBody) /\ DistinctNames(bBody.files)) =>
              LET code(i) == IF NoCode(i) THEN bBody.files[i].content
                             ELSE Resolved(i).refactoredCode
              IN  /\ bResponse[1].kind = "zip"
                  /\ bResponse[1].status = 200
                  /\ bResponse[1].entries = ArchiveOf(bBody.files, code)

\* An archive has been sent for two files with distinct names, one
\* refactored and one whose call succeeded with an empty refactoredCode.
C3_Witness ==
    /\ BatchAnswered("zip")
    /\ Len(bBody.files) = 2
    /\ DistinctNames(bBody.files)
    /\ ~NoCode(1)
    /\ ~CallFailed(2) /\ NoCode(2)

\* C10: within one batch request the refactor calls are strictly sequential
\* and unrepeated: at most one call is outstanding, calls are issued in input
\* order, the call for file i+1 only after the call for file i has resolved,
\* each file gets exactly one call whatever its outcome, and the response is
\* sent only after the last call has resolved.
C10_SequentialCalls ==
    /\ Cardinality(bOutstanding) <= 1
    /\ \A k \in 1..Len(bLog) :
          /\ bLog[k].event = (IF k % 2 = 1 THEN "call" ELSE "settle")
          /\ bLog[k].file = (k + 1) \div 2
    /\ bOutstanding = (IF Len(bLog) % 2 = 1 THEN {(Len(bLog) + 1) \div 2} ELSE {})
    /\ Len(bLog) <= 2 * Len(bBody.files)
    /\ bResponse # <<>> =>
          /\ bOutstanding = {}
          /\ Len(bLog) = (IF noFiles(bBody) THEN 0 ELSE 2 * Len(bBody.files))
          /\ \A i \in 1..Len(bBody.files) :
                Cardinality({k \in 1..Len(bLog) :
                    bLog[k].event = "call" /\ bLog[k].file = i}) = 1

\* A batch of two files whose first call timed out has been answered.
C10_Witness ==
    /\ bResponse # <<>>
    /\ bBody.kind = "array"
    /\ Len(bBody.files) = 2
    /\ CallFailed(1)
    /\ Resolved(1).error.message = "timeout of 30000ms exceeded"

(***************************************************************************)
(* refactor.js:48-125, the single-snippet and the upload endpoints, and    *)
(* how the router brings a request to them.  The router matches a request  *)
(* by req.method and req.url against its routes in the order they were     *)
(* registered; inside the router req.url is the path after the mount       *)
(* point /api/refactor.                                                    *)
(***************************************************************************)
Routes ==
    <<[method |-> "POST", path |-> "/", stage |-> "snippet"],
      [method |-> "POST", path |-> "/upload", stage |-> "multer"],
      [method |-> "GET", path |-> "/stats", stage |-> "other"],
      [method |-> "POST", path |-> "/upload-zip", stage |-> "other"],
      [method |-> "POST", path |-> "/refactor-zip", stage |-> "other"],
      [method |-> "POST", path |-> "/refactor-zip-animated", stage |-> "other"]>>

Matches(route, method, url) == route.method = method /\ route.path = url

\* The first route registered that matches (one does, for the requests modelled).
MatchRoute(method, url) ==
    Routes[CHOOSE k \in 1..Len(Routes) :
               /\ Matches(Routes[k], method, url)
               /\ \A j \in 1..(k - 1) : ~Matches(Routes[j], method, url)]

\* JSON.parse of the settings field.
JsonParse(text) ==
    CASE text = "{}" -> Return({})
      [] text = "null" -> Return(NullSettings)
      [] text = "{\"addComments\":true}" -> Return({"addComments"})
      [] OTHER -> Throw(PlainError("Unexpected token in JSON"))

Respond(status, body) == [status |-> status, body |-> body]

\* part_000:123-140, the application's error middleware, which next(err)
\* reaches when it leaves the router.
ErrorMiddleware(message, isDevelopment) ==
    Respond(500, [error |-> [message |-> IF isDevelopment THEN message
                                         ELSE "Internal Server Error",
                             status |-> 500]])

\* Lines 62-78: the envelope of the single-snippet endpoint for a result.
SnippetEnvelope(result) ==
    IF ~result.success
    THEN Respond(500, [error |-> [message |-> "Refactoring failed",
                                  details |-> result.error.message]])
    ELSE Respond(200, [success |-> TRUE,
                       data |-> [refactoredCode |-> result.refactoredCode,
                                 metrics |-> result.metrics,
                                 tokenUsage |-> result.tokenUsage]])

(***************************************************************************)
(* The upload specification: one request, POST / or POST /upload, through  *)
(* the router.  router.handle is followed for at most MaxDispatches runs.  *)
(***************************************************************************)
MaxDispatches == 3

UploadNames == {<<"a">> \o ExtJs, Api \o ExtTs, <<"a">> \o <<DOT, "p", "n", "g">>}
UploadedFiles ==
    [originalname : UploadNames, mimetype : MimeTypes,
     size : {"small", "over5MB"}, buffer : {<<"x">>}]
SettingsFields == {Undefined, "{}", "null", "{bad"}

UploadRequests ==
    {[method |-> "POST", url |-> "/upload",
      sent |-> [file |-> f, settings |-> st],
      body |-> [settings |-> Undefined], file |-> <<>>, consumed |-> FALSE] :
         f \in {<<>>} \cup {<<u>> : u \in UploadedFiles}, st \in SettingsFields}

SnippetRequests ==
    {[method |-> "POST", url |-> "/",
      sent |-> [file |-> <<>>, settings |-> Undefined],
      body |-> [code |-> c, language |-> l, settings |-> st],
      file |-> <<>>, consumed |-> TRUE] :
         c \in {<<>>, <<"x">>}, l \in {"", "typescript"},
         st \in {{}, NullSettings}}

UploadInit ==
    /\ uReq \in UploadRequests \cup SnippetRequests
    /\ uStage = "dispatch"
    /\ uRoute = <<>>
    /\ uDispatches = 0
    /\ uTrace = <<>> /\ uCalls = <<>> /\ uResponses = <<>>
    /\ CleanupIdle
    /\ MetricsIdle
    /\ LangIdle
    /\ SvcIdle
    /\ BatchIdle

NotUpload ==
    UNCHANGED <<cleanupVars, metricsVars, langVars, svcVars, batchVars>>

\* router.handle(req, res, ...): by the application for the request as it
\* arrives, and by line 118 for the request the upload handler forwards.
RouterHandle ==
    /\ uStage = "dispatch"
    /\ uDispatches < MaxDispatches
    /\ LET route == MatchRoute(uReq.method, uReq.url)
       IN  /\ uRoute' = <<route.path>>
           /\ uStage' = route.stage
    /\ uDispatches' = uDispatches + 1
    /\ UNCHANGED <<uReq, uTrace, uCalls, uResponses>>
    /\ NotUpload

\* Lines 10-29 and 88: upload.single('file') reads the multipart body.
MulterSingle ==
    /\ uStage = "multer"
    /\ ~uReq.consumed
    /\ LET sent == uReq.sent
           read == [uReq EXCEPT !.consumed = TRUE]
       IN  IF sent.file = <<>>
           THEN /\ uReq' = [read EXCEPT !.body = [settings |-> sent.settings]]
                /\ uStage' = "upload"
                /\ UNCHANGED uResponses
           ELSE IF ~fileFilter(sent.file[1].originalname, sent.file[1].mimetype)
           THEN /\ \E dev \in BOOLEAN :
                      uResponses' = Append(uResponses, ErrorMiddleware(
                          "Invalid file type. Only JavaScript files are allowed.",
                          dev))
                /\ uReq' = read
                /\ uStage' = "done"
           ELSE IF sent.file[1].size = "over5MB"
           THEN /\ \E dev \in BOOLEAN :
                      uResponses' = Append(uResponses,
                                           ErrorMiddleware("File too large", dev))
                /\ uReq' = read
                /\ uStage' = "done"
           ELSE /\ uReq' = [read EXCEPT
                               !.body = [settings |-> sent.settings],
                               !.file = <<[originalname |-> sent.file[1].originalname,
                                           mimetype |-> sent.file[1].mimetype,
                                           buffer |-> sent.file[1].buffer]>>]
                /\ uStage' = "upload"
                /\ UNCHANGED uResponses
    /\ UNCHANGED <<uRoute, uDispatches, uTrace, uCalls>>
    /\ NotUpload

\* upload.single('file') on a request whose body it has read already: the
\* parser gets an ended stream, and either ends with no part (req.body is
\* reset, req.file stays) or reports the form as cut short; that error
\* leaves a router.handle that was given no callback, and nothing answers.
MulterSingleAgain ==
    /\ uStage = "multer"
    /\ uReq.consumed
    /\ \E ending \in {"finish", "error"} :
          IF ending = "finish"
          THEN /\ uReq' = [uReq EXCEPT !.body = [settings |-> Undefined]]
               /\ uStage' = "upload"
          ELSE /\ uStage' = "crashed"
               /\ UNCHANGED uReq
    /\ UNCHANGED <<uRoute, uDispatches, uTrace, uCalls, uResponses>>
    /\ NotUpload

\* Lines 88-125: the handler of POST /upload.
UploadHandler ==
    /\ uStage = "upload"
    /\ uTrace' = Append(uTrace, "upload")
    /\ IF uReq.file = <<>>
       THEN /\ uResponses' = Append(uResponses,
                  Respond(400, [error |-> [message |-> "No file uploaded"]]))
            /\ uStage' = "done"
            /\ UNCHANGED uReq
       ELSE LET code == uReq.file[1].buffer
                language == UploadLanguage(uReq.file[1].originalname)
                settings == IF uReq.body.settings \notin {Undefined, ""}
                            THEN JsonParse(uReq.body.settings)
                            ELSE Return({})
            IN  IF settings.type = "throw"
                THEN /\ uResponses' = Append(uResponses,
                           Respond(500, [error |-> [message |->
                               "File upload and refactoring failed"]]))
                     /\ uStage' = "done"
                     /\ UNCHANGED uReq
                ELSE /\ uReq' = [uReq EXCEPT
                                    !.body = [code |-> code,
                                              language |-> language,
                                              settings |-> settings.value]]
                     /\ uStage' = "dispatch"
                     /\ UNCHANGED uResponses
    /\ UNCHANGED <<uRoute, uDispatches, uCalls>>
    /\ NotUpload

\* Lines 49-60: the handler of POST / up to its await.
SnippetHandler ==
    /\ uStage = "snippet"
    /\ uTrace' = Append(uTrace, "snippet")
    /\ IF uReq.body.code = <<>> \/ uReq.body.language = ""
       THEN /\ uResponses' = Append(uResponses,
                  Respond(400, [error |-> [message |->
                      "Code and language are required"]]))
            /\ uStage' = "done"
            /\ UNCHANGED uCalls
       ELSE /\ uCalls' = Append(uCalls, uReq.body)
            /\ uStage' = "awaitService"
            /\ UNCHANGED uResponses
    /\ UNCHANGED <<uReq, uRoute, uDispatches>>
    /\ NotUpload

\* Lines 60-78: refactorCode resolves and the envelope is sent.
SnippetSettle ==
    /\ uStage = "awaitService"
    /\ \E outcome \in BatchOutcomes :
          LET done == refactorCode(uReq.body.code, uReq.body.language,
                                   uReq.body.settings, outcome)
          IN  uResponses' = Append(uResponses, SnippetEnvelope(done.value))
    /\ uStage' = "done"
    /\ UNCHANGED <<uReq, uRoute, uDispatches, uTrace, uCalls>>
    /\ NotUpload

UploadNext ==
    \/ RouterHandle \/ MulterSingle \/ MulterSingleAgain
    \/ UploadHandler \/ SnippetHandler \/ SnippetSettle

SpecUpload == UploadInit /\ [][UploadNext]_vars

\* The upload handler has forwarded the request (line 118).
Forwarded == uReq # <<>> /\ uReq.url = "/upload" /\ "code" \in DOMAIN uReq.body

\* C4: an upload that passes the filter proceeds exactly as the
\* single-snippet endpoint: once the upload handler has set the body and
\* re-dispatched, the route that runs is the single-snippet one, the upload
\* handler is not entered again, and the request ends with exactly one
\* refactorCode call, for the decoded code and the inferred language, and
\* exactly one response.
C4_UploadProceedsAsSnippet ==
    Forwarded =>
        /\ (uDispatches >= 2 /\ uRoute # <<>>) => uRoute[1] = "/"
        /\ Cardinality({k \in 1..Len(uTrace) : uTrace[k] = "upload"}) <= 1
        /\ uStage # "crashed"
        /\ uStage = "done" =>
              /\ Len(uCalls) = 1
              /\ uCalls[1].code = uReq.file[1].buffer
              /\ uCalls[1].language = UploadLanguage(uReq.file[1].originalname)
              /\ Len(uResponses) = 1

=============================================================================
